---- MODULE Spec2Model ----
(***************************************************************************)
(* Model of the grading engine of grading_system.py: the Course aggregate  *)
(* (students, assignments, scores), roster and grade ingestion, weighted   *)
(* totals and outlier detection.                                           *)
(*                                                                         *)
(* Strings are sequences of one-character strings, so that strip(),        *)
(* lower() and float() are computed and not assumed.  Floats are exact     *)
(* rationals [k |-> "fin", n, d] (d > 0, lowest terms) extended with the   *)
(* IEEE values float() produces: [k |-> "inf"] (n = sign) and              *)
(* [k |-> "nan"].  Binary rounding error is not modelled.                  *)
(***************************************************************************)
EXTENDS Integers, Sequences, FiniteSets, TLC

VARIABLES students, student_name, scores, assignments, last

vars == <<students, student_name, scores, assignments, last>>

(***************************************************************************)
(* Generic helpers                                                         *)
(***************************************************************************)
Range(s) == {s[i] : i \in 1..Len(s)}

Abs(x) == IF x < 0 THEN -x ELSE x

Sign(x) == IF x < 0 THEN -1 ELSE IF x = 0 THEN 0 ELSE 1

RECURSIVE GCD(_, _)
GCD(a, b) == IF b = 0 THEN a ELSE GCD(b, a % b)

RECURSIVE Pow10(_)
Pow10(k) == IF k = 0 THEN 1 ELSE 10 * Pow10(k - 1)

(***************************************************************************)
(* float values                                                            *)
(***************************************************************************)
Fin(n, d) ==
    LET s == IF d < 0 THEN -1 ELSE 1
        g == GCD(Abs(n), Abs(d))
    IN  [k |-> "fin", n |-> (s * n) \div g, d |-> (s * d) \div g]

Inf(s) == [k |-> "inf", n |-> s, d |-> 1]

NaN == [k |-> "nan", n |-> 0, d |-> 1]

Zero == Fin(0, 1)

IsFinite(x) == x.k = "fin"

\* sign of a finite or infinite value
FSign(x) == Sign(x.n)

\* x + y
FAdd(x, y) ==
    IF x.k = "nan" \/ y.k = "nan" THEN NaN
    ELSE IF x.k = "inf" /\ y.k = "inf" THEN (IF x.n = y.n THEN x ELSE NaN)
    ELSE IF x.k = "inf" THEN x
    ELSE IF y.k = "inf" THEN y
    ELSE Fin(x.n * y.d + y.n * x.d, x.d * y.d)

\* x * y
FMul(x, y) ==
    IF x.k = "nan" \/ y.k = "nan" THEN NaN
    ELSE IF x.k = "inf" \/ y.k = "inf"
         THEN (IF FSign(x) * FSign(y) = 0 THEN NaN ELSE Inf(FSign(x) * FSign(y)))
    ELSE Fin(x.n * y.n, x.d * y.d)

\* x / y for a finite y # 0 (the only divisions the engine performs)
FDiv(x, y) ==
    IF x.k = "nan" THEN NaN
    ELSE IF x.k = "inf" THEN Inf(x.n * FSign(y))
    ELSE Fin(x.n * y.d, x.d * y.n)

FNeg(x) == [x EXCEPT !.n = -x.n]

\* x < y on finite values
FLess(x, y) == x.n * y.d < y.n * x.d

\* round(x, 2): nearest multiple of 1/100, ties to even; inf and nan unchanged
round2(x) ==
    IF x.k # "fin" THEN x
    ELSE LET num == x.n * 100
             q == num \div x.d
             r == num % x.d
             up == \/ 2 * r > x.d
                   \/ (2 * r = x.d /\ q % 2 = 1)
         IN  Fin(IF up THEN q + 1 ELSE q, 100)

(***************************************************************************)
(* str.strip, str.lower, float(str)                                        *)
(***************************************************************************)
IsSpace(c) == c \in {" ", "\t"}

RECURSIVE LStrip(_)
LStrip(s) == IF s # <<>> /\ IsSpace(Head(s)) THEN LStrip(Tail(s)) ELSE s

RECURSIVE RStrip(_)
RStrip(s) ==
    IF s # <<>> /\ IsSpace(s[Len(s)]) THEN RStrip(SubSeq(s, 1, Len(s) - 1)) ELSE s

strip(s) == RStrip(LStrip(s))

UpperCase ==
    <<"A", "B", "C", "D", "E", "F", "G", "H", "I", "J", "K", "L", "M",
      "N", "O", "P", "Q", "R", "S", "T", "U", "V", "W", "X", "Y", "Z">>

LowerCase ==
    <<"a", "b", "c", "d", "e", "f", "g", "h", "i", "j", "k", "l", "m",
      "n", "o", "p", "q", "r", "s", "t", "u", "v", "w", "x", "y", "z">>

LowerChar(c) ==
    IF \E i \in 1..26 : UpperCase[i] = c
    THEN LowerCase[CHOOSE i \in 1..26 : UpperCase[i] = c]
    ELSE c

lower(s) == [i \in 1..Len(s) |-> LowerChar(s[i])]

Digits == {"0", "1", "2", "3", "4", "5", "6", "7", "8", "9"}

DigitVal(c) ==
    CASE c = "0" -> 0 [] c = "1" -> 1 [] c = "2" -> 2 [] c = "3" -> 3
      [] c = "4" -> 4 [] c = "5" -> 5 [] c = "6" -> 6 [] c = "7" -> 7
      [] c = "8" -> 8 [] c = "9" -> 9

AllDigits(s) == \A i \in 1..Len(s) : s[i] \in Digits

RECURSIVE DecVal(_)
DecVal(s) == IF s = <<>> THEN 0
             ELSE 10 * DecVal(SubSeq(s, 1, Len(s) - 1)) + DigitVal(s[Len(s)])

ValueError == [k |-> "err", n |-> 0, d |-> 1]

\* float(s) for the literals the inputs use: optional sign, decimal digits with
\* an optional fraction, and the words nan, inf, infinity in any case.
float(s) ==
    LET t == lower(strip(s))
        signed == t # <<>> /\ Head(t) \in {"+", "-"}
        sg == IF signed /\ Head(t) = "-" THEN -1 ELSE 1
        body == IF signed THEN Tail(t) ELSE t
        dots == {i \in 1..Len(body) : body[i] = "."}
    IN  IF body = <<"n", "a", "n">> THEN NaN
        ELSE IF body \in {<<"i", "n", "f">>, <<"i", "n", "f", "i", "n", "i", "t", "y">>}
             THEN Inf(sg)
        ELSE IF body # <<>> /\ AllDigits(body) THEN Fin(sg * DecVal(body), 1)
        ELSE IF Cardinality(dots) = 1
             THEN LET p == CHOOSE i \in dots : TRUE
                      ip == SubSeq(body, 1, p - 1)
                      fp == SubSeq(body, p + 1, Len(body))
                  IN  IF AllDigits(ip) /\ AllDigits(fp) /\ Len(ip) + Len(fp) > 0
                      THEN Fin(sg * (DecVal(ip) * Pow10(Len(fp)) + DecVal(fp)),
                               Pow10(Len(fp)))
                      ELSE ValueError
        ELSE ValueError

(***************************************************************************)
(* The Course aggregate                                                    *)
(*   students      keys of Course.students in insertion order              *)
(*   student_name  Student.name by id                                      *)
(*   scores        Student.scores by id: assignment name -> score          *)
(*   assignments   Course.assignments in insertion order                   *)
(*   last          the last call: its arguments and what it returned       *)
(***************************************************************************)
Assignment(name, weight, max_score) ==
    [name |-> name, weight |-> weight, max_score |-> max_score]

AssignmentNames(as) == {as[i].name : i \in 1..Len(as)}

Lookup(as, name) == as[CHOOSE i \in 1..Len(as) : as[i].name = name]

\* d with key k set to v (a dict assignment: a new key is added, an old one replaced)
Put(d, k, v) == [j \in DOMAIN d \cup {k} |-> IF j = k THEN v ELSE d[j]]

\* the empty dict
EmptyDict == <<>>

\* Course.__init__: no students, no assignments
NewCourse ==
    [students |-> <<>>, student_name |-> EmptyDict, scores |-> EmptyDict,
     assignments |-> <<>>]

\* the course the variables hold
Course ==
    [students |-> students, student_name |-> student_name, scores |-> scores,
     assignments |-> assignments]

(***************************************************************************)
(* import_students_from_csv                                                *)
(***************************************************************************)
RECURSIVE ImportStudentRows(_, _, _)
ImportStudentRows(c, rows, count) ==
    IF rows = <<>> THEN [course |-> c, count |-> count]
    ELSE LET row == Head(rows) IN
         IF row = <<>> THEN ImportStudentRows(c, Tail(rows), count)
         ELSE LET sid == strip(row[1])
                  name == IF Len(row) > 1 THEN strip(row[2]) ELSE sid
              IN  IF sid \in Range(c.students)
                  THEN ImportStudentRows(c, Tail(rows), count)
                  ELSE ImportStudentRows(
                           [c EXCEPT !.students = Append(@, sid),
                                     !.student_name = Put(@, sid, name),
                                     !.scores = Put(@, sid, EmptyDict)],
                           Tail(rows), count + 1)

import_students_from_csv(c, rows) == ImportStudentRows(c, rows, 0)

(***************************************************************************)
(* add_assignment, enter_grade: raised = "" when the call returns          *)
(***************************************************************************)
\* add_assignment storing the assignment before it looks for the name
add_assignmentOverwriting(c, name, weight, max_score) ==
    IF name \in AssignmentNames(c.assignments)
    THEN [course |-> [c EXCEPT !.assignments =
                          [i \in 1..Len(@) |-> IF @[i].name = name
                                               THEN Assignment(name, weight, max_score)
                                               ELSE @[i]]],
          raised |-> "ValueError"]
    ELSE [course |-> [c EXCEPT !.assignments = Append(@, Assignment(name, weight, max_score))],
          raised |-> ""]

add_assignment(c, name, weight, max_score) ==
    IF name \in AssignmentNames(c.assignments)
    THEN [course |-> c, raised |-> "ValueError"]
    ELSE [course |-> [c EXCEPT !.assignments = Append(@, Assignment(name, weight, max_score))],
          raised |-> ""]

enter_grade(c, student_id, assignment_name, score) ==
    IF student_id \notin Range(c.students)
    THEN [course |-> c, raised |-> "KeyError"]
    ELSE IF assignment_name \notin AssignmentNames(c.assignments)
    THEN [course |-> c, raised |-> "KeyError"]
    ELSE [course |-> [c EXCEPT !.scores[student_id] = Put(@, assignment_name, score)],
          raised |-> ""]

(***************************************************************************)
(* bulk_import_grades_csv                                                  *)
(***************************************************************************)
\* Assignment(aname, 0.0): the placeholder of an assignment met during ingestion
AutoAssignment(aname) == Assignment(aname, Zero, Fin(100, 1))

\* RecordScore without the registration of an unknown assignment
RecordScoreUnregistered(c, sid, aname, score) ==
    [c EXCEPT !.scores[sid] = Put(@, aname, score)]

\* RecordScore adding the new score to the recorded one
RecordScoreAdding(c, sid, aname, score) ==
    LET c1 == IF aname \notin AssignmentNames(c.assignments)
              THEN [c EXCEPT !.assignments = Append(@, AutoAssignment(aname))]
              ELSE c
        old == IF aname \in DOMAIN c.scores[sid] THEN c.scores[sid][aname] ELSE Zero
    IN  [c1 EXCEPT !.scores[sid] = Put(@, aname, FAdd(old, score))]

\* lines 136-139 and 156-158: register the assignment if absent, record the score
RecordScore(c, sid, aname, score) ==
    LET c1 == IF aname \notin AssignmentNames(c.assignments)
              THEN [c EXCEPT !.assignments = Append(@, AutoAssignment(aname))]
              ELSE c
    IN  [c1 EXCEPT !.scores[sid] = Put(@, aname, score)]

\* the cells of one wide-format row: i counts the header's assignment names from 1
RECURSIVE WideCells(_, _, _, _, _)
WideCells(c, sid, assignment_names, row, i) ==
    IF i > Len(assignment_names) THEN c
    ELSE IF i >= Len(row) THEN WideCells(c, sid, assignment_names, row, i + 1)
    ELSE LET val == strip(row[i + 1])
             score == float(val)
         IN  IF val = <<>> THEN WideCells(c, sid, assignment_names, row, i + 1)
             ELSE IF score = ValueError
                  THEN WideCells(c, sid, assignment_names, row, i + 1)
             ELSE WideCells(RecordScore(c, sid, assignment_names[i], score),
                            sid, assignment_names, row, i + 1)

\* WideRows counting a row as processed only when one of its cells was applied
RECURSIVE WideRowsCountingCells(_, _, _, _, _)
WideRowsCountingCells(c, assignment_names, rows, processed, failed) ==
    IF rows = <<>> THEN [course |-> c, processed |-> processed, failed |-> failed]
    ELSE LET row == Head(rows) IN
         IF row = <<>>
         THEN WideRowsCountingCells(c, assignment_names, Tail(rows), processed, failed)
         ELSE LET sid == strip(row[1]) IN
              IF sid \notin Range(c.students)
              THEN WideRowsCountingCells(c, assignment_names, Tail(rows), processed,
                                         failed + 1)
              ELSE LET c1 == WideCells(c, sid, assignment_names, row, 1)
                   IN  WideRowsCountingCells(c1, assignment_names, Tail(rows),
                                             IF c1 = c THEN processed ELSE processed + 1,
                                             failed)

RECURSIVE WideRows(_, _, _, _, _)
WideRows(c, assignment_names, rows, processed, failed) ==
    IF rows = <<>> THEN [course |-> c, processed |-> processed, failed |-> failed]
    ELSE LET row == Head(rows) IN
         IF row = <<>> THEN WideRows(c, assignment_names, Tail(rows), processed, failed)
         ELSE LET sid == strip(row[1]) IN
              IF sid \notin Range(c.students)
              THEN WideRows(c, assignment_names, Tail(rows), processed, failed + 1)
              ELSE WideRows(WideCells(c, sid, assignment_names, row, 1),
                            assignment_names, Tail(rows), processed + 1, failed)

\* NarrowRows giving up at the first row it cannot use
RECURSIVE NarrowRowsStopping(_, _, _, _)
NarrowRowsStopping(c, rows, processed, failed) ==
    IF rows = <<>> THEN [course |-> c, processed |-> processed, failed |-> failed]
    ELSE LET row == Head(rows) IN
         IF Len(row) < 3 THEN [course |-> c, processed |-> processed, failed |-> failed + 1]
         ELSE LET sid == strip(row[1])
                  aname == strip(row[2])
                  score == float(strip(row[3]))
              IN  IF score = ValueError \/ sid \notin Range(c.students)
                  THEN [course |-> c, processed |-> processed, failed |-> failed + 1]
                  ELSE NarrowRowsStopping(RecordScore(c, sid, aname, score),
                                          Tail(rows), processed + 1, failed)

RECURSIVE NarrowRows(_, _, _, _)
NarrowRows(c, rows, processed, failed) ==
    IF rows = <<>> THEN [course |-> c, processed |-> processed, failed |-> failed]
    ELSE LET row == Head(rows) IN
         IF Len(row) < 3 THEN NarrowRows(c, Tail(rows), processed, failed + 1)
         ELSE LET sid == strip(row[1])
                  aname == strip(row[2])
                  score == float(strip(row[3]))
              IN  IF score = ValueError
                  THEN NarrowRows(c, Tail(rows), processed, failed + 1)
                  ELSE IF sid \notin Range(c.students)
                  THEN NarrowRows(c, Tail(rows), processed, failed + 1)
                  ELSE NarrowRows(RecordScore(c, sid, aname, score),
                                  Tail(rows), processed + 1, failed)

\* line 118: the header test that selects the wide format
IsWide(rows) ==
    /\ rows # <<>>
    /\ rows[1] # <<>>
    /\ lower(strip(rows[1][1])) = <<"i", "d">>

bulk_import_grades_csv(c, rows) ==
    IF rows = <<>> THEN [course |-> c, processed |-> 0, failed |-> 0]
    ELSE IF IsWide(rows)
    THEN LET headers == [i \in 1..Len(rows[1]) |-> strip(rows[1][i])]
         IN  WideRows(c, Tail(headers), Tail(rows), 0, 0)
    ELSE NarrowRows(c, rows, 0, 0)

(***************************************************************************)
(* calculate_weighted_scores                                               *)
(***************************************************************************)
RECURSIVE SumWeights(_, _)
SumWeights(as, i) ==
    IF i > Len(as) THEN Zero ELSE FAdd(as[i].weight, SumWeights(as, i + 1))

\* lines 169-172
TotalWeight(as) ==
    LET total_weight == SumWeights(as, 1)
    IN  IF total_weight = Zero THEN Fin(1, 1) ELSE total_weight

\* StudentTotal taking every score as a percentage, whatever the max_score
RECURSIVE StudentTotalOutOf100(_, _, _, _, _)
StudentTotalOutOf100(as, student_scores, total_weight, i, total) ==
    IF i > Len(as) THEN total
    ELSE LET assignment == as[i]
             score == IF assignment.name \in DOMAIN student_scores
                      THEN student_scores[assignment.name] ELSE Zero
             perc == IF assignment.max_score # Zero THEN score ELSE Zero
         IN  StudentTotalOutOf100(as, student_scores, total_weight, i + 1,
                                  FAdd(total, FMul(perc, FDiv(assignment.weight, total_weight))))

\* lines 175-180: the inner loop over the catalog for one student's scores
RECURSIVE StudentTotal(_, _, _, _, _)
StudentTotal(as, student_scores, total_weight, i, total) ==
    IF i > Len(as) THEN total
    ELSE LET assignment == as[i]
             score == IF assignment.name \in DOMAIN student_scores
                      THEN student_scores[assignment.name] ELSE Zero
             perc == IF assignment.max_score # Zero
                     THEN FMul(FDiv(score, assignment.max_score), Fin(100, 1))
                     ELSE Zero
         IN  StudentTotal(as, student_scores, total_weight, i + 1,
                          FAdd(total, FMul(perc, FDiv(assignment.weight, total_weight))))

calculate_weighted_scores(c) ==
    [sid \in Range(c.students) |->
        round2(StudentTotal(c.assignments, c.scores[sid], TotalWeight(c.assignments), 1, Zero))]

(***************************************************************************)
(* detect_outliers                                                         *)
(***************************************************************************)
\* lines 189-192: (id, score) of the students with a score, in dict order
RECURSIVE ScoredStudents(_, _, _)
ScoredStudents(c, assignment_name, i) ==
    IF i > Len(c.students) THEN <<>>
    ELSE LET sid == c.students[i]
             rest == ScoredStudents(c, assignment_name, i + 1)
         IN  IF assignment_name \in DOMAIN c.scores[sid]
             THEN <<[sid |-> sid, score |-> c.scores[sid][assignment_name]]>> \o rest
             ELSE rest

RECURSIVE SumValues(_, _)
SumValues(pairs, i) ==
    IF i > Len(pairs) THEN Zero ELSE FAdd(pairs[i].score, SumValues(pairs, i + 1))

\* statistics.mean
Mean(pairs) == FDiv(SumValues(pairs, 1), Fin(Len(pairs), 1))

RECURSIVE SumSquares(_, _, _)
SumSquares(pairs, m, i) ==
    IF i > Len(pairs) THEN Zero
    ELSE LET dv == FAdd(pairs[i].score, FNeg(m))
         IN  FAdd(FMul(dv, dv), SumSquares(pairs, m, i + 1))

\* statistics.variance (N - 1); statistics.stdev is its square root
Variance(pairs) == FDiv(SumSquares(pairs, Mean(pairs), 1), Fin(Len(pairs) - 1, 1))

\* abs(val - mean) > threshold_stddev * stdev, with stdev = sqrt(variance) > 0,
\* decided exactly: a negative right side is exceeded, otherwise compare squares
ExceedsThreshold(val, m, threshold_stddev, variance) ==
    LET dv == FAdd(val, FNeg(m))
    IN  IF FSign(threshold_stddev) < 0 THEN TRUE
        ELSE FLess(FMul(FMul(threshold_stddev, threshold_stddev), variance), FMul(dv, dv))

RECURSIVE FilterOutliers(_, _, _, _, _)
FilterOutliers(pairs, m, variance, threshold_stddev, i) ==
    IF i > Len(pairs) THEN <<>>
    ELSE LET rest == FilterOutliers(pairs, m, variance, threshold_stddev, i + 1)
         IN  IF variance = Zero THEN rest
             ELSE IF ExceedsThreshold(pairs[i].score, m, threshold_stddev, variance)
                  THEN <<pairs[i]>> \o rest
                  ELSE rest

\* statistics.stdev (CPython 3.11) raises AttributeError on data holding inf or nan
detect_outliers(c, assignment_name, threshold_stddev) ==
    LET pairs == ScoredStudents(c, assignment_name, 1)
    IN  IF pairs = <<>> THEN [outliers |-> <<>>, raised |-> ""]
        ELSE IF Len(pairs) < 2 THEN [outliers |-> <<>>, raised |-> ""]
        ELSE IF \E i \in 1..Len(pairs) : ~IsFinite(pairs[i].score)
             THEN [outliers |-> <<>>, raised |-> "AttributeError"]
        ELSE [outliers |-> FilterOutliers(pairs, Mean(pairs), Variance(pairs),
                                          threshold_stddev, 1),
              raised |-> ""]

(***************************************************************************)
(* Inputs                                                                  *)
(***************************************************************************)
MaxRosterRows == 2
MaxWideRows == 2
MaxNarrowRows == 3

SeqsUpTo(R, n) == UNION {[1..k -> R] : k \in 0..n}

S1 == <<"s", "1">>
S2 == <<"s", "2">>
S3 == <<"s", "3">>
ZZ == <<"z", "z">>
HW1 == <<"H", "W", "1">>
Exam == <<"E", "x", "a", "m">>
Quiz == <<"Q", "u", "i", "z">>

\* roster files: lines (id[,name]), with a blank line and a padded id
RosterRows == {<<>>, <<S1, <<" ", "A", "l">>>>, <<<<" ", "s", "2", " ">>>>}
RosterFiles == SeqsUpTo(RosterRows, MaxRosterRows)

\* add_assignment(name, weight, max_score)
AddArgs ==
    {<<HW1, Fin(3, 10), Fin(20, 1)>>, <<HW1, Fin(1, 1), Zero>>,
     <<Exam, Fin(7, 10), Fin(100, 1)>>, <<Exam, Fin(-3, 10), Fin(100, 1)>>}

\* enter_grade(student_id, assignment_name, score)
EnterArgs ==
    {<<S1, HW1, Fin(18, 1)>>, <<S1, Exam, Fin(85, 1)>>, <<S2, HW1, Fin(85, 1)>>,
     <<ZZ, HW1, Fin(18, 1)>>}

\* grade files of the interactive session: empty, wide and narrow
SessionGradeFiles ==
    LET header == <<<<"I", "D">>, HW1, Exam>>
    IN  {<<>>,
         <<header>>,
         <<header, <<S2, <<"n", "a", "n">>, <<"7", "0">>>>>>,
         <<header, <<ZZ, <<"1", "8">>>>>>,
         <<<<S2, Exam, <<" ", "7", "0", " ">>>>>>,
         <<<<S1, HW1, <<"x">>>>>>}

\* detect_outliers(assignment_name, threshold_stddev); 2.0 is the default
OutlierArgs == {<<HW1, Fin(2, 1)>>, <<HW1, Zero>>, <<Exam, Fin(-1, 1)>>}

(***************************************************************************)
(* The calls: each action is one whole call on the course                  *)
(***************************************************************************)
NoCall ==
    [op |-> "init", rows |-> <<>>, sid |-> <<>>, aname |-> <<>>, x |-> Zero, y |-> Zero,
     raised |-> "", count |-> 0, failed |-> 0, totals |-> EmptyDict, outliers |-> <<>>]

SetCourse(c) ==
    /\ students' = c.students
    /\ student_name' = c.student_name
    /\ scores' = c.scores
    /\ assignments' = c.assignments

Init ==
    /\ students = NewCourse.students
    /\ student_name = NewCourse.student_name
    /\ scores = NewCourse.scores
    /\ assignments = NewCourse.assignments
    /\ last = NoCall

ImportStudents ==
    \E rows \in RosterFiles :
        \E r \in {import_students_from_csv(Course, rows)} :
            /\ SetCourse(r.course)
            /\ last' = [NoCall EXCEPT !.op = "import_students_from_csv",
                                      !.rows = rows, !.count = r.count]

AddAssignment ==
    \E a \in AddArgs :
        \E r \in {add_assignment(Course, a[1], a[2], a[3])} :
            /\ SetCourse(r.course)
            /\ last' = [NoCall EXCEPT !.op = "add_assignment", !.aname = a[1],
                                      !.x = a[2], !.y = a[3], !.raised = r.raised]

EnterGrade ==
    \E a \in EnterArgs :
        \E r \in {enter_grade(Course, a[1], a[2], a[3])} :
            /\ SetCourse(r.course)
            /\ last' = [NoCall EXCEPT !.op = "enter_grade", !.sid = a[1],
                                      !.aname = a[2], !.x = a[3], !.raised = r.raised]

BulkImportFrom(files) ==
    \E rows \in files :
        \E r \in {bulk_import_grades_csv(Course, rows)} :
            /\ SetCourse(r.course)
            /\ last' = [NoCall EXCEPT !.op = "bulk_import_grades_csv", !.rows = rows,
                                      !.count = r.processed, !.failed = r.failed]

BulkImport == BulkImportFrom(SessionGradeFiles)

CalculateWeightedScores ==
    /\ last' = [NoCall EXCEPT !.op = "calculate_weighted_scores",
                              !.totals = calculate_weighted_scores(Course)]
    /\ UNCHANGED <<students, student_name, scores, assignments>>

DetectOutliers ==
    \E a \in OutlierArgs :
        \E r \in {detect_outliers(Course, a[1], a[2])} :
            /\ last' = [NoCall EXCEPT !.op = "detect_outliers", !.aname = a[1],
                                      !.x = a[2], !.outliers = r.outliers,
                                      !.raised = r.raised]
            /\ UNCHANGED <<students, student_name, scores, assignments>>

Next ==
    \/ ImportStudents
    \/ AddAssignment
    \/ EnterGrade
    \/ BulkImport
    \/ CalculateWeightedScores
    \/ DetectOutliers

Spec == Init /\ [][Next]_vars

(***************************************************************************)
(* Bulk ingestion into the demo course                                     *)
(***************************************************************************)
\* demo_setup_example
DemoCourse ==
    [students |-> <<S1, S2, S3>>,
     student_name |-> (S1 :> <<"A", "l", "i", "c", "e">>) @@ (S2 :> <<"B", "o", "b">>)
                      @@ (S3 :> <<"C", "h", "a", "r", "l", "i", "e">>),
     scores |-> (S1 :> ((HW1 :> Fin(18, 1)) @@ (Exam :> Fin(85, 1))))
                @@ (S2 :> ((HW1 :> Fin(12, 1)) @@ (Exam :> Fin(70, 1))))
                @@ (S3 :> ((HW1 :> Fin(19, 1)) @@ (Exam :> Fin(95, 1)))),
     assignments |-> <<Assignment(HW1, Fin(3, 10), Fin(20, 1)),
                       Assignment(Exam, Fin(7, 10), Fin(100, 1))>>]

\* wide files: a header whose first cell reads "id", then data rows: a full
\* row, an unknown id, and a known id with no usable cell
WideHeader == <<<<"i", "d">>, HW1, Quiz>>

FullRow == <<S1, <<"1", "7">>, <<"7">>>>

WideDataRows ==
    {FullRow,
     <<ZZ, <<"1", "8">>, <<"7">>>>,
     <<<<" ", "s", "2", " ">>, <<"x">>, <<" ">>, <<"3">>>>}

\* a padded, upper-case "ID" and the same assignment named by two columns
RepeatedHeader == <<<<" ", "I", "D", " ">>, <<" ", "Q", "u", "i", "z">>, Quiz>>

\* the remaining files hold blank lines, short rows, a blank cell, a nan cell
WideFiles ==
    {<<WideHeader>> \o rows : rows \in SeqsUpTo(WideDataRows, MaxWideRows)}
    \cup {<<WideHeader, <<>>>>,
          <<WideHeader, <<>>, FullRow, <<>>>>,
          <<RepeatedHeader>>,
          <<RepeatedHeader, FullRow>>,
          <<RepeatedHeader, <<<<" ", "s", "1">>, <<" ">>, <<"9", ".", "5">>>>>>,
          <<RepeatedHeader, <<S3, <<"n", "a", "n">>>>>>,
          <<RepeatedHeader, <<S2, <<"x">>>>>>}

\* narrow files: rows (id, assignment, score): well formed, unknown id, score
\* that is no number; then a blank first line, a two-field row, padded cells
NarrowDataRows ==
    {<<S1, Exam, <<"9", "0">>>>,
     <<ZZ, Exam, <<"8", "5">>>>,
     <<S1, Exam, <<"a", "b", "c">>>>}

NarrowFiles ==
    SeqsUpTo(NarrowDataRows, MaxNarrowRows)
    \cup {<<<<>>, <<S1, Exam, <<"9", "0">>>>>>,
          <<<<S2, Quiz>>>>,
          <<<<<<" ", "s", "3">>, <<"Q", "u", "i", "z", " ">>, <<"-", "2", ".", "5">>>>,
            <<S3, Quiz, <<"N", "a", "N">>>>>>}

InitDemo ==
    /\ students = DemoCourse.students
    /\ student_name = DemoCourse.student_name
    /\ scores = DemoCourse.scores
    /\ assignments = DemoCourse.assignments
    /\ last = NoCall

BulkImportWide == BulkImportFrom(WideFiles)

BulkImportNarrow == BulkImportFrom(NarrowFiles)

NextBulk == BulkImportWide \/ BulkImportNarrow

SpecBulk == InitDemo /\ [][NextBulk]_vars

(***************************************************************************)
(* Properties of bulk ingestion                                            *)
(***************************************************************************)
IsBulkCall(l) == l.op = "bulk_import_grades_csv"

\* the rows of a file at the indexes in I, in order
RECURSIVE RowsFrom(_, _, _)
RowsFrom(rows, I, i) ==
    IF i > Len(rows) THEN <<>>
    ELSE (IF i \in I THEN <<rows[i]>> ELSE <<>>) \o RowsFrom(rows, I, i + 1)

RowsAt(rows, I) == RowsFrom(rows, I, 1)

\* C1: in a wide file every non-empty data row is counted once: failed when its
\* id is unknown (no score changes, no assignment is registered), processed
\* otherwise whatever the number of cells applied; empty rows are not counted.
C1_WideRowsCountedOnce ==
    [][(IsBulkCall(last') /\ IsWide(last'.rows)) =>
        \A data \in {Tail(last'.rows)} :
        \A named \in {{i \in 1..Len(data) : data[i] # <<>>}} :
        \A unknown \in {{i \in named : strip(data[i][1]) \notin Range(students)}} :
        \A known \in {named \ unknown} :
            /\ last'.failed = Cardinality(unknown)
            /\ last'.count = Cardinality(known)
            /\ students' = students
            /\ \A sid \in Range(students) :
                   (\A i \in known : strip(data[i][1]) # sid) => scores'[sid] = scores[sid]
            /\ known = {} => (scores' = scores /\ assignments' = assignments)
            /\ Course' = bulk_import_grades_csv(
                             Course, <<last'.rows[1]>> \o RowsAt(data, known)).course
      ]_vars

C1_Witness ==
    /\ IsBulkCall(last)
    /\ last.rows = <<WideHeader, <<ZZ, <<"1", "8">>, <<"7">>>>,
                     <<<<" ", "s", "2", " ">>, <<"x">>, <<" ">>, <<"3">>>>>>
    /\ last.count = 1
    /\ last.failed = 1

NarrowRowFails(row, ids) ==
    \/ Len(row) < 3
    \/ float(strip(row[3])) = ValueError
    \/ strip(row[1]) \notin ids

NarrowExample ==
    <<<<S1, Exam, <<"9", "0">>>>, <<ZZ, Exam, <<"8", "5">>>>, <<S1, Exam, <<"a", "b", "c">>>>>>

\* C2: in a narrow file every row is counted once and the batch never aborts:
\* a row fails, changing nothing, exactly when it has fewer than 3 fields, a
\* score that is no number or an unknown id; any other row records its score.
\* The example file (good row, unknown id, bad score) returns (1, 2).
C2_NarrowRowsCountedOnce ==
    [][(IsBulkCall(last') /\ ~IsWide(last'.rows)) =>
        \A rows \in {last'.rows} :
        \A bad \in {{i \in 1..Len(rows) : NarrowRowFails(rows[i], Range(students))}} :
        \A good \in {(1..Len(rows)) \ bad} :
            /\ last'.failed = Cardinality(bad)
            /\ last'.count = Cardinality(good)
            /\ last'.count + last'.failed = Len(rows)
            /\ students' = students
            /\ good = {} => (scores' = scores /\ assignments' = assignments)
            /\ Course' = bulk_import_grades_csv(Course, RowsAt(rows, good)).course
            /\ \A i \in good :
                   LET sid == strip(rows[i][1])
                       aname == strip(rows[i][2])
                       later == {j \in good : /\ j > i
                                              /\ strip(rows[j][1]) = sid
                                              /\ strip(rows[j][2]) = aname}
                   IN  /\ aname \in AssignmentNames(assignments')
                       /\ aname \in DOMAIN scores'[sid]
                       /\ later = {} => scores'[sid][aname] = float(strip(rows[i][3]))
            /\ rows = NarrowExample => (last'.count = 1 /\ last'.failed = 2)
      ]_vars

C2_Witness ==
    /\ IsBulkCall(last)
    /\ last.rows = NarrowExample
    /\ last.count = 1
    /\ last.failed = 2
    /\ scores[S1][Exam] = Fin(90, 1)

\* C3: after a wide file has been ingested, ingesting the same file again
\* leaves every student's scores and the assignment catalog as they are.
C3_WideReingestionIdempotent ==
    (IsBulkCall(last) /\ IsWide(last.rows)) =>
        LET again == bulk_import_grades_csv(Course, last.rows)
        IN  /\ again.course.scores = scores
            /\ again.course.assignments = assignments
            /\ again.processed = last.count
            /\ again.failed = last.failed

C3_Witness ==
    /\ IsBulkCall(last)
    /\ last.rows = <<RepeatedHeader, FullRow>>
    /\ Quiz \in AssignmentNames(assignments)
    /\ scores[S1][Quiz] = Fin(7, 1)

(***************************************************************************)
(* Properties of the weighted totals                                       *)
(***************************************************************************)
IsCalculateCall(l) == l.op = "calculate_weighted_scores"

\* the course without one assignment and without the scores recorded for it
Without(c, aname) ==
    [c EXCEPT !.assignments = SelectSeq(c.assignments, LAMBDA a : a.name # aname),
              !.scores = [sid \in DOMAIN c.scores |->
                             [n \in DOMAIN c.scores[sid] \ {aname} |-> c.scores[sid][n]]]]

\* C4: an assignment created by bulk ingestion has weight 0.0 and max_score
\* 100.0, and while it has them the totals calculate_weighted_scores returns
\* are those of the course without that assignment and its scores.
C4_AutoCreatedLeavesTotals ==
    IsCalculateCall(last) =>
        \A i \in 1..Len(assignments) :
            assignments[i] = AutoAssignment(assignments[i].name) =>
                last.totals = calculate_weighted_scores(Without(Course, assignments[i].name))

RECURSIVE WeightSum(_, _)
WeightSum(names, as) ==
    IF names = {} THEN Zero
    ELSE LET a == CHOOSE n \in names : TRUE
         IN  FAdd(Lookup(as, a).weight, WeightSum(names \ {a}, as))

\* one assignment's term: score / max_score * 100 * weight / total_weight
Term(a, student_scores, W) ==
    LET raw == IF a.name \in DOMAIN student_scores THEN student_scores[a.name] ELSE Zero
    IN  IF a.max_score = Zero THEN Zero
        ELSE FDiv(FMul(FMul(FDiv(raw, a.max_score), Fin(100, 1)), a.weight), W)

RECURSIVE TermSum(_, _, _, _)
TermSum(names, as, student_scores, W) ==
    IF names = {} THEN Zero
    ELSE LET a == CHOOSE n \in names : TRUE
         IN  FAdd(TermSum(names \ {a}, as, student_scores, W),
                  Term(Lookup(as, a), student_scores, W))

\* C5: calculate_weighted_scores returns, for exactly the students of the
\* course, the 2-decimal rounding of the sum over the catalog of
\* score / max_score * 100 * weight / total_weight, a missing score being 0, an
\* assignment with max_score 0 contributing 0, and total_weight being the sum
\* of the weights or 1 when that sum is 0; weights 0.3 and 0.7 with scores
\* 18/20 and 85/100 give 86.5.
C5_WeightedTotalFormula ==
    IsCalculateCall(last) =>
        \A names \in {AssignmentNames(assignments)} :
        \A sum \in {WeightSum(names, assignments)} :
        \A W \in {IF sum = Zero THEN Fin(1, 1) ELSE sum} :
            /\ DOMAIN last.totals = Range(students)
            /\ \A sid \in Range(students) :
                   /\ last.totals[sid] = round2(TermSum(names, assignments, scores[sid], W))
                   /\ ( /\ Range(assignments) = {Assignment(HW1, Fin(3, 10), Fin(20, 1)),
                                                  Assignment(Exam, Fin(7, 10), Fin(100, 1))}
                        /\ scores[sid] = (HW1 :> Fin(18, 1)) @@ (Exam :> Fin(85, 1)) )
                      => last.totals[sid] = Fin(865, 10)

C5_Witness ==
    /\ IsCalculateCall(last)
    /\ students = <<S2, S1>>
    /\ Range(assignments) = {Assignment(HW1, Fin(3, 10), Fin(20, 1)),
                             Assignment(Exam, Fin(7, 10), Fin(100, 1))}
    /\ scores[S1] = (HW1 :> Fin(18, 1)) @@ (Exam :> Fin(85, 1))
    /\ DOMAIN scores[S2] = {}
    /\ last.totals = (S1 :> Fin(865, 10)) @@ (S2 :> Zero)

\* C6: when every assignment has weight 0, or there is none,
\* calculate_weighted_scores returns 0.0 for every student.
C6_ZeroWeightsGiveZero ==
    (IsCalculateCall(last) /\ \A i \in 1..Len(assignments) : assignments[i].weight = Zero)
        => \A sid \in DOMAIN last.totals : last.totals[sid] = Zero

\* C7: when no weight is negative, no total calculate_weighted_scores returns
\* is a number above 100.
C7_TotalAtMost100 ==
    (IsCalculateCall(last) /\ \A i \in 1..Len(assignments) : FSign(assignments[i].weight) >= 0)
        => \A sid \in DOMAIN last.totals :
               IsFinite(last.totals[sid]) => ~FLess(Fin(100, 1), last.totals[sid])

(***************************************************************************)
(* Properties of the single-item operations and of the course              *)
(***************************************************************************)
\* C8: add_assignment with a name of the catalog raises and changes nothing;
\* enter_grade with an unknown student or an unknown assignment raises and
\* changes nothing.
C8_FailedCallChangesNothing ==
    [][ /\ (last'.op = "add_assignment" /\ last'.aname \in AssignmentNames(assignments))
            => (last'.raised = "ValueError" /\ Course' = Course)
        /\ ( /\ last'.op = "enter_grade"
             /\ \/ last'.sid \notin Range(students)
                \/ last'.aname \notin AssignmentNames(assignments) )
            => (last'.raised = "KeyError" /\ Course' = Course)
      ]_vars

C8_Witness ==
    /\ last.op = "add_assignment"
    /\ last.raised = "ValueError"
    /\ last.aname \in AssignmentNames(assignments)
    /\ Lookup(assignments, last.aname).weight # last.x
    /\ \E sid \in Range(students) : last.aname \in DOMAIN scores[sid]

IsOutlierCall(l) == l.op = "detect_outliers"

\* the students an outlier query is about, by the sums of their scores:
\* with N scores of sum S and sum of squares Q, the sample variance is
\* (N*Q - S*S) / (N*(N-1)) and v deviates from the mean by (N*v - S) / N
ReferenceOutliers(c, aname, t) ==
    LET with == SelectSeq(c.students, LAMBDA sid : aname \in DOMAIN c.scores[sid])
        v(sid) == c.scores[sid][aname]
        N == Fin(Len(with), 1)
        S == SumValues([i \in 1..Len(with) |-> [score |-> v(with[i])]], 1)
        Q == SumValues([i \in 1..Len(with) |-> [score |-> FMul(v(with[i]), v(with[i]))]], 1)
        spread == FAdd(FMul(N, Q), FNeg(FMul(S, S)))
        far(sid) ==
            LET dv == FAdd(FMul(N, v(sid)), FNeg(S))
            IN  IF FSign(t) < 0 THEN TRUE
                ELSE FLess(FMul(FMul(FMul(t, t), N), spread),
                           FMul(FMul(dv, dv), Fin(Len(with) - 1, 1)))
        flagged == SelectSeq(with, LAMBDA sid : far(sid))
    IN  IF Len(with) < 2 \/ spread = Zero THEN <<>>
        ELSE [i \in 1..Len(flagged) |-> [sid |-> flagged[i], score |-> v(flagged[i])]]

\* C9: detect_outliers returns, in the order of the students, the (id, score)
\* of those whose score deviates from the mean of the recorded scores by more
\* than threshold times their sample standard deviation, and the empty list
\* for fewer than 2 scores or equal scores.
C9_OutliersReturned ==
    IsOutlierCall(last) =>
        /\ last.raised = ""
        /\ (\A sid \in Range(students) :
                last.aname \in DOMAIN scores[sid] => IsFinite(scores[sid][last.aname]))
            => last.outliers = ReferenceOutliers(Course, last.aname, last.x)

KeysInCatalog(sc, as) ==
    \A sid \in DOMAIN sc : DOMAIN sc[sid] \subseteq AssignmentNames(as)

IsPrefix(s, t) == Len(s) <= Len(t) /\ \A i \in 1..Len(s) : t[i] = s[i]

\* C10: after every call every assignment name with a score is in the catalog,
\* and no call removes a student or an assignment or changes an assignment.
C10_ScoresNameCatalogEntries ==
    [][ /\ KeysInCatalog(scores', assignments')
        /\ IsPrefix(students, students')
        /\ IsPrefix(assignments, assignments')
        /\ DOMAIN scores' = Range(students')
      ]_vars

C10_Witness ==
    /\ IsBulkCall(last)
    /\ last.count = 1
    /\ assignments = <<AutoAssignment(HW1), AutoAssignment(Exam)>>
    /\ DOMAIN scores[S2] = {HW1, Exam}

====
